---- MODULE Spec2Model ----
(***************************************************************************)
(* A model of the similarity engine of src/src/main.rs: the catalog        *)
(* (struct Similarity), its vector arithmetic over i32 ratings, the f64    *)
(* cosine similarity and the top-5 ranking of get_similar.                 *)
(*                                                                         *)
(* Numbers.  A rating is an i32; TLC's integers have the same range, so a  *)
(* rating is a TLA+ integer and every i32 operation is written so that no  *)
(* intermediate value leaves that range.  Wider values (the exact product  *)
(* of two ratings, the 53-bit significand of an f64 and the 106-bit        *)
(* products of two significands) are naturals kept as little-endian        *)
(* sequences of 14-bit limbs ("Big").  An f64 is NaN, zero or              *)
(* sign * man * 2^exp with man a 53-bit Big; sqrt, * and / round to        *)
(* nearest, ties to even, as IEEE 754 and Rust's f64 do.                   *)
(***************************************************************************)
EXTENDS Integers, Sequences, FiniteSets, TLC

(***************************************************************************)
(* Naturals of any width: little-endian sequences of 14-bit limbs, with no *)
(* leading (last) zero limb; zero is the empty sequence.                   *)
(***************************************************************************)
LimbBits == 14

RECURSIVE Pow2(_)
Pow2(n) == IF n = 0 THEN 1 ELSE 2 * Pow2(n - 1)

Limb == Pow2(LimbBits)

RECURSIVE BigNorm(_)
BigNorm(a) ==
    IF a = <<>> THEN <<>>
    ELSE IF a[Len(a)] = 0 THEN BigNorm(SubSeq(a, 1, Len(a) - 1))
    ELSE a

RECURSIVE BigFromNat(_)
BigFromNat(n) ==
    IF n = 0 THEN <<>> ELSE <<n % Limb>> \o BigFromNat(n \div Limb)

BigLimb(a, i) == IF i <= Len(a) THEN a[i] ELSE 0

Max(x, y) == IF x >= y THEN x ELSE y

RECURSIVE BigAddFrom(_, _, _, _)
BigAddFrom(a, b, i, carry) ==
    IF i > Max(Len(a), Len(b))
    THEN IF carry = 0 THEN <<>> ELSE <<carry>>
    ELSE LET s == BigLimb(a, i) + BigLimb(b, i) + carry
         IN  <<s % Limb>> \o BigAddFrom(a, b, i + 1, s \div Limb)

BigAdd(a, b) == BigAddFrom(a, b, 1, 0)

\* a - b for a >= b
RECURSIVE BigSubFrom(_, _, _, _)
BigSubFrom(a, b, i, borrow) ==
    IF i > Len(a) THEN <<>>
    ELSE LET d == BigLimb(a, i) - BigLimb(b, i) - borrow
         IN  IF d < 0
             THEN <<d + Limb>> \o BigSubFrom(a, b, i + 1, 1)
             ELSE <<d>> \o BigSubFrom(a, b, i + 1, 0)

BigSub(a, b) == BigNorm(BigSubFrom(a, b, 1, 0))

\* -1, 0, 1 as a < b, a = b, a > b
RECURSIVE BigCmpFrom(_, _, _)
BigCmpFrom(a, b, i) ==
    IF i = 0 THEN 0
    ELSE IF a[i] < b[i] THEN -1
    ELSE IF a[i] > b[i] THEN 1
    ELSE BigCmpFrom(a, b, i - 1)

BigCmp(a, b) ==
    IF Len(a) < Len(b) THEN -1
    ELSE IF Len(a) > Len(b) THEN 1
    ELSE BigCmpFrom(a, b, Len(a))

\* a * k for 0 <= k <= Limb
RECURSIVE BigMulSmallFrom(_, _, _, _)
BigMulSmallFrom(a, k, i, carry) ==
    IF i > Len(a)
    THEN BigFromNat(carry)
    ELSE LET p == a[i] * k + carry
         IN  <<p % Limb>> \o BigMulSmallFrom(a, k, i + 1, p \div Limb)

BigMulSmall(a, k) == BigNorm(BigMulSmallFrom(a, k, 1, 0))

RECURSIVE BigZeros(_)
BigZeros(q) == IF q = 0 THEN <<>> ELSE <<0>> \o BigZeros(q - 1)

RECURSIVE BigMulFrom(_, _, _)
BigMulFrom(a, b, j) ==
    IF j > Len(b) THEN <<>>
    ELSE BigAdd(BigNorm(BigZeros(j - 1) \o BigMulSmall(a, b[j])),
                BigMulFrom(a, b, j + 1))

BigMul(a, b) == BigNorm(BigMulFrom(a, b, 1))

\* a * 2^k
BigShl(a, k) ==
    IF a = <<>> THEN <<>>
    ELSE BigZeros(k \div LimbBits) \o BigMulSmall(a, Pow2(k % LimbBits))

\* floor(a / 2^r) for 0 <= r < LimbBits, limb i and up
RECURSIVE BigShrSmallFrom(_, _, _)
BigShrSmallFrom(a, r, i) ==
    IF i > Len(a) THEN <<>>
    ELSE <<(a[i] \div Pow2(r)) + (BigLimb(a, i + 1) % Pow2(r)) * Pow2(LimbBits - r)>>
         \o BigShrSmallFrom(a, r, i + 1)

BigShrSmall(a, r) == BigNorm(BigShrSmallFrom(a, r, 1))

\* floor(a / 2^k)
BigShr(a, k) ==
    IF k \div LimbBits >= Len(a) THEN <<>>
    ELSE BigShrSmall(SubSeq(a, (k \div LimbBits) + 1, Len(a)), k % LimbBits)

\* a mod 2^k
BigLow(a, k) == BigSub(a, BigShl(BigShr(a, k), k))

RECURSIVE NatBitLen(_)
NatBitLen(n) == IF n = 0 THEN 0 ELSE 1 + NatBitLen(n \div 2)

BigBitLen(a) ==
    IF a = <<>> THEN 0 ELSE (Len(a) - 1) * LimbBits + NatBitLen(a[Len(a)])

BigBit(a, k) == (BigLimb(a, (k \div LimbBits) + 1) \div Pow2(k % LimbBits)) % 2

BigOne == <<1>>

(***************************************************************************)
(* f64.  NaN, zero, or sign * man * 2^exp with man a Big of exactly 53     *)
(* bits.  The values the engine computes stay far from the subnormal and   *)
(* overflow ranges (their exponents lie within +-130), so neither is       *)
(* modelled; x / 0 is never evaluated (cosine_similarity returns before    *)
(* dividing when a magnitude is 0.0) and is given the IEEE answer for      *)
(* completeness.                                                           *)
(***************************************************************************)
MantBits == 53

F64NaN == [cls |-> "nan", neg |-> FALSE, man |-> <<>>, exp |-> 0]

F64Zero == [cls |-> "zero", neg |-> FALSE, man |-> <<>>, exp |-> 0]

F64Inf(neg) == [cls |-> "inf", neg |-> neg, man |-> <<>>, exp |-> 0]

F64Num(neg, man, exp) == [cls |-> "num", neg |-> neg, man |-> man, exp |-> exp]

\* The f64 nearest to (n + d) * 2^e, ties to even, for a Big n > 0 and a
\* fraction 0 <= d < 1 that is nonzero exactly when sticky.
F64Round(neg, n, e, sticky) ==
    LET bl == BigBitLen(n) IN
    IF bl <= MantBits
    THEN F64Num(neg, BigShl(n, MantBits - bl), e - (MantBits - bl))
    ELSE LET sh   == bl - MantBits
             q    == BigShr(n, sh)
             c    == BigCmp(BigLow(n, sh), BigShl(BigOne, sh - 1))
             up   == c > 0 \/ (c = 0 /\ (sticky \/ BigBit(q, 0) = 1))
             q2   == IF up THEN BigAdd(q, BigOne) ELSE q
         IN  IF BigBitLen(q2) > MantBits
             THEN F64Num(neg, BigShr(q2, 1), e + sh + 1)
             ELSE F64Num(neg, q2, e + sh)

I32Max == 2147483647

I32Min == -2147483647 - 1

\* f64::from(i32): exact
F64FromI32(x) ==
    IF x = 0 THEN F64Zero
    ELSE IF x = I32Min THEN F64Num(TRUE, BigShl(BigOne, MantBits - 1), 32 - MantBits)
    ELSE F64Round(x < 0, BigFromNat(IF x < 0 THEN -x ELSE x), 0, FALSE)

\* floor(sqrt(n)) and the remainder, one result bit per pair of bits of n,
\* the pairs taken from pair i down to pair 0.
RECURSIVE ISqrtStep(_, _, _, _)
ISqrtStep(n, i, res, rem) ==
    IF i < 0 THEN <<res, rem>>
    ELSE LET pair  == 2 * BigBit(n, 2 * i + 1) + BigBit(n, 2 * i)
             rem4  == BigAdd(BigMulSmall(rem, 4), BigFromNat(pair))
             trial == BigAdd(BigMulSmall(res, 4), BigOne)
         IN  IF BigCmp(rem4, trial) >= 0
             THEN ISqrtStep(n, i - 1, BigAdd(BigMulSmall(res, 2), BigOne),
                            BigSub(rem4, trial))
             ELSE ISqrtStep(n, i - 1, BigMulSmall(res, 2), rem4)

BigISqrt(n) == ISqrtStep(n, (BigBitLen(n) + 1) \div 2, <<>>, <<>>)

\* f64::sqrt: correctly rounded; NaN for a negative argument.  The radicand
\* man * 2^exp is scaled by an even power of two to 110 or 111 bits, so that
\* its integer root has 55 or 56 bits.
F64Sqrt(x) ==
    IF x.cls = "nan" THEN F64NaN
    ELSE IF x.cls = "zero" THEN F64Zero
    ELSE IF x.neg THEN F64NaN
    ELSE IF x.cls = "inf" THEN x
    ELSE LET s  == IF (x.exp - 57) % 2 = 0 THEN 57 ELSE 58
             r  == BigISqrt(BigShl(x.man, s))
         IN  F64Round(FALSE, r[1], (x.exp - s) \div 2, r[2] # <<>>)

\* f64 multiplication
F64Mul(x, y) ==
    IF x.cls = "nan" \/ y.cls = "nan" THEN F64NaN
    ELSE IF x.cls = "inf" \/ y.cls = "inf"
    THEN IF x.cls = "zero" \/ y.cls = "zero" THEN F64NaN ELSE F64Inf(x.neg # y.neg)
    ELSE IF x.cls = "zero" \/ y.cls = "zero" THEN F64Zero
    ELSE F64Round(x.neg # y.neg, BigMul(x.man, y.man), x.exp + y.exp, FALSE)

\* n more bits of the quotient of rem / d with rem < d: <<quotient, remainder>>
RECURSIVE DivStep(_, _, _, _)
DivStep(rem, d, q, n) ==
    IF n = 0 THEN <<q, rem>>
    ELSE LET r2 == BigMulSmall(rem, 2)
             q2 == BigMulSmall(q, 2)
         IN  IF Len(q2) >= 0 /\ BigCmp(r2, d) >= 0
             THEN DivStep(BigSub(r2, d), d, BigAdd(q2, BigOne), n - 1)
             ELSE DivStep(r2, d, q2, n - 1)

\* f64 division: the quotient of the two significands to 56 or 57 bits and
\* whether a remainder is left, rounded.
F64Div(x, y) ==
    IF x.cls = "nan" \/ y.cls = "nan" THEN F64NaN
    ELSE IF x.cls = "inf"
    THEN IF y.cls = "inf" THEN F64NaN ELSE F64Inf(x.neg # y.neg)
    ELSE IF y.cls = "inf" THEN F64Zero
    ELSE IF y.cls = "zero"
    THEN IF x.cls = "zero" THEN F64NaN ELSE F64Inf(x.neg # y.neg)
    ELSE IF x.cls = "zero" THEN F64Zero
    ELSE LET ge == BigCmp(x.man, y.man) >= 0
             r  == DivStep(IF ge THEN BigSub(x.man, y.man) ELSE x.man, y.man,
                           IF ge THEN BigOne ELSE <<>>, 56)
         IN  F64Round(x.neg # y.neg, r[1], x.exp - y.exp - 56, r[2] # <<>>)

\* x < y on f64 values that are not NaN
F64Less(x, y) ==
    LET rank(v) == IF v.cls = "zero" THEN 0 ELSE IF v.neg THEN -1 ELSE 1
        magLess(a, b) ==         \* |a| < |b| for a, b of one sign, not zero
            IF a.cls = "inf" THEN FALSE
            ELSE IF b.cls = "inf" THEN TRUE
            ELSE a.exp < b.exp \/ (a.exp = b.exp /\ BigCmp(a.man, b.man) < 0)
    IN  IF rank(x) # rank(y) THEN rank(x) < rank(y)
        ELSE IF rank(x) = 0 THEN FALSE
        ELSE IF rank(x) = 1 THEN magLess(x, y)
        ELSE magLess(y, x)

\* f64::partial_cmp: "Less", "Equal", "Greater", or "None" when either is NaN
partial_cmp(x, y) ==
    IF x.cls = "nan" \/ y.cls = "nan" THEN "None"
    ELSE IF F64Less(x, y) THEN "Less"
    ELSE IF F64Less(y, x) THEN "Greater"
    ELSE "Equal"

\* x >= y as IEEE 754 compares: false when either is NaN
F64Ge(x, y) == partial_cmp(x, y) \in {"Greater", "Equal"}

F64One == F64FromI32(1)

(***************************************************************************)
(* i32.  An operation gives its exact result when that fits, and otherwise *)
(* overflows: a build with overflow checks (Rust's debug profile) panics,  *)
(* one without (the release profile) wraps modulo 2^32.  Each operator     *)
(* returns [over |-> whether it overflowed, val |-> the wrapped result].   *)
(***************************************************************************)
BigAbs(x) ==
    IF x = I32Min THEN BigShl(BigOne, 31)
    ELSE BigFromNat(IF x < 0 THEN -x ELSE x)

\* the natural a < 2^31 as an integer
BigToNat(a) == BigLimb(a, 1) + Limb * BigLimb(a, 2) + Limb * Limb * BigLimb(a, 3)

\* the i32 with the bits of the natural u < 2^32
I32OfBits(u) ==
    IF BigBitLen(u) = 32
    THEN BigToNat(BigSub(u, BigShl(BigOne, 31))) + I32Min
    ELSE BigToNat(u)

I32Mul(x, y) ==
    LET mag  == BigMul(BigAbs(x), BigAbs(y))
        neg  == (x < 0) # (y < 0) /\ mag # <<>>
        low  == BigLow(mag, 32)
        bits == IF neg /\ low # <<>> THEN BigSub(BigShl(BigOne, 32), low) ELSE low
    IN  [over |-> IF neg THEN BigCmp(mag, BigShl(BigOne, 31)) > 0
                         ELSE BigCmp(mag, BigShl(BigOne, 31)) >= 0,
         val  |-> I32OfBits(bits)]

I32Add(x, y) ==
    IF x >= 0 /\ y >= 0 /\ x > I32Max - y
    THEN [over |-> TRUE, val |-> (((x - I32Max) - 1) + y) - I32Max - 1]
    ELSE IF x < 0 /\ y < 0 /\ x < I32Min - y
    THEN [over |-> TRUE, val |-> (((x + I32Max) + 1) + y) + I32Max + 1]
    ELSE [over |-> FALSE, val |-> x + y]

(***************************************************************************)
(* The outcome of a call: it returns a value, or it panics (and returns     *)
(* nothing: ret is then the placeholder Nothing).  A panic has its message *)
(* and the values formatted into the message; every panic of the engine    *)
(* has a literal message, so none carries a value.                         *)
(***************************************************************************)
Nothing == [unit |-> TRUE]

Returned(v) == [panic |-> "", values |-> <<>>, ret |-> v]

Panicked(msg) == [panic |-> msg, values |-> <<>>, ret |-> Nothing]

LengthMismatchMsg == "All Items ratings length must be equal."

NotFoundMsg == "Couldn't find item"

MulOverflowMsg == "attempt to multiply with overflow"

AddOverflowMsg == "attempt to add with overflow"

\* The sum, from acc, of the products a[i] * b[i] for i = k..n, each product
\* and each addition in turn, as the iterator chain map(..).sum() runs them.
RECURSIVE SumProducts(_, _, _, _, _, _)
SumProducts(checks, a, b, k, n, acc) ==
    IF k > n THEN Returned(acc)
    ELSE LET p == I32Mul(a[k], b[k])
             s == I32Add(acc, p.val)
         IN  IF checks /\ p.over THEN Panicked(MulOverflowMsg)
             ELSE IF checks /\ s.over THEN Panicked(AddOverflowMsg)
             ELSE SumProducts(checks, a, b, k + 1, n, s.val)

(***************************************************************************)
(* Similarity::dot_product, magnitude, cosine_similarity.  An Item is      *)
(* [id, rating]: its title and description are never read by the engine    *)
(* (a result reaches them through its `against` reference).  checks is     *)
(* the build's overflow-checks setting.                                    *)
(***************************************************************************)
\* (a faulty variant of dot_product: no length check; zip stops at the shorter rating)
dot_product_zip(checks, item_1, item_2) ==
    SumProducts(checks, item_1.rating, item_2.rating, 1,
                IF Len(item_1.rating) < Len(item_2.rating)
                THEN Len(item_1.rating) ELSE Len(item_2.rating), 0)

dot_product(checks, item_1, item_2) ==
    IF Len(item_1.rating) # Len(item_2.rating)
    THEN Panicked(LengthMismatchMsg)
    ELSE SumProducts(checks, item_1.rating, item_2.rating, 1, Len(item_1.rating), 0)

magnitude(checks, item) ==
    LET values_squared_added ==
            SumProducts(checks, item.rating, item.rating, 1, Len(item.rating), 0)
    IN  IF values_squared_added.panic # "" THEN values_squared_added
        ELSE Returned(F64Sqrt(F64FromI32(values_squared_added.ret)))

\* cosine_similarity from the outcomes of its three calls, in their order:
\* the first that panicked ends it; then the test for a zero magnitude and
\* the division
Cosine(dot, magnitude_1, magnitude_2) ==
    IF dot.panic # "" THEN dot
    ELSE IF magnitude_1.panic # "" THEN magnitude_1
    ELSE IF magnitude_2.panic # "" THEN magnitude_2
    ELSE IF magnitude_1.ret.cls = "zero" \/ magnitude_2.ret.cls = "zero"
    THEN Returned(F64Zero)
    ELSE Returned(F64Div(F64FromI32(dot.ret),
                         F64Mul(magnitude_1.ret, magnitude_2.ret)))

cosine_similarity(checks, item_1, item_2) ==
    Cosine(dot_product(checks, item_1, item_2),
           magnitude(checks, item_1),
           magnitude(checks, item_2))

(***************************************************************************)
(* The rating vectors the catalogs are built from.                         *)
(*   <<1, 1>>, <<10, 4>>  two directions (the second is the demo           *)
(*                        catalog's first item); items with the same       *)
(*                        rating tie                                       *)
(*   <<0, 0>>             the all-zero vector                              *)
(*   <<3>>                a vector of another length                       *)
(*   <<46341, 0>>         46341^2 > 2^31 - 1: the sum of squares overflows *)
(***************************************************************************)
PlainRatings == {<<1, 1>>, <<10, 4>>}

OddRatings == {<<0, 0>>, <<3>>, <<46341, 0>>}

Ratings == PlainRatings \cup OddRatings

\* The rating vectors the vector arithmetic is applied to, pair by pair:
\* the lengths 0, 1 and 2, zero vectors, negative ratings, and sums of
\* squares that overflow in the multiplication (46341^2, and 65536^2 = 2^32)
\* or in the addition (2^30 + 2^30).
MathRatings ==
    {<<>>, <<0>>, <<3>>, <<0, 0>>, <<1, 1>>, <<3, 4>>, <<-3, -4>>, <<10, 4>>, <<2, 9>>,
     <<46341, 0>>, <<65536, 0>>, <<32768, 32768>>}

AllRatings == Ratings \cup MathRatings

\* cosine_similarity reads nothing of its items but their ratings: its
\* outcome for every build and pair of ratings, computed once.
CosineTable ==
    [checks \in BOOLEAN |->
        [r1 \in AllRatings |->
            [r2 \in AllRatings |->
                cosine_similarity(checks, [id |-> 0, rating |-> r1],
                                          [id |-> 0, rating |-> r2])]]]

CosineOf(checks, item_1, item_2) == CosineTable[checks][item_1.rating][item_2.rating]

\* magnitude likewise
MagnitudeTable ==
    [checks \in BOOLEAN |->
        [r \in AllRatings |-> magnitude(checks, [id |-> 0, rating |-> r])]]

MagnitudeOf(checks, item) == MagnitudeTable[checks][item.rating]

(***************************************************************************)
(* The state: the build's overflow-checks setting, the catalog             *)
(* (Similarity.items; Similarity.keys is written by create_key and read by *)
(* nothing) and the outcome of the last call.                              *)
(***************************************************************************)
VARIABLES overflow_checks, items, call

vars == <<overflow_checks, items, call>>

NoCall == [op |-> "none", args |-> <<>>, panic |-> "", values |-> <<>>, ret |-> Nothing]

\* The value a call returned, under the name of its type: an i32
\* (dot_product), an f64 (magnitude, cosine_similarity) or a
\* Vec<SimilarityArrayObject> (get_similar).
I32(outcome) ==
    IF outcome.panic # "" THEN outcome ELSE Returned([i32 |-> outcome.ret])

F64(outcome) ==
    IF outcome.panic # "" THEN outcome ELSE Returned([f64 |-> outcome.ret])

Vec(outcome) ==
    IF outcome.panic # "" THEN outcome ELSE Returned([vec |-> outcome.ret])

CallOf(op, args, outcome) ==
    [op |-> op, args |-> args, panic |-> outcome.panic, values |-> outcome.values,
     ret |-> outcome.ret]

\* (a faulty variant of FindFrom: a missing id finds the last item)
RECURSIVE FindOrLast(_, _, _)
FindOrLast(catalog, item_id, k) ==
    IF k > Len(catalog) THEN Len(catalog)
    ELSE IF catalog[k].id = item_id THEN k
    ELSE FindOrLast(catalog, item_id, k + 1)

\* slice::iter().find: the index of the first item with this id, 0 for None
RECURSIVE FindFrom(_, _, _)
FindFrom(catalog, item_id, k) ==
    IF k > Len(catalog) THEN 0
    ELSE IF catalog[k].id = item_id THEN k
    ELSE FindFrom(catalog, item_id, k + 1)

\* (a faulty variant of Calculate: the loop without its `continue`)
RECURSIVE CalculateWithSelf(_, _, _, _, _)
CalculateWithSelf(checks, catalog, item, k, all_items_calculated) ==
    IF k > Len(catalog) THEN Returned(all_items_calculated)
    ELSE LET value == CosineOf(checks, item, catalog[k]) IN
         IF value.panic # "" THEN value
         ELSE CalculateWithSelf(checks, catalog, item, k + 1,
                                Append(all_items_calculated,
                                       [id |-> catalog[k].id, against |-> k,
                                        similarity |-> value.ret]))

\* The loop of get_similar from catalog[k] on: a SimilarityArrayObject
\* [id, against, similarity] for every item whose id is not the query
\* item's, `against` being the item's place in the catalog (the reference
\* the object holds; its title is that item's).
RECURSIVE Calculate(_, _, _, _, _)

\* the loop's body at catalog[k] once value is computed, and the rest of
\* the loop
Push(checks, catalog, item, k, all_items_calculated, value) ==
    IF value.panic # "" THEN value
    ELSE Calculate(checks, catalog, item, k + 1,
                   Append(all_items_calculated,
                          [id |-> catalog[k].id, against |-> k,
                           similarity |-> value.ret]))

Calculate(checks, catalog, item, k, all_items_calculated) ==
    IF k > Len(catalog) THEN Returned(all_items_calculated)
    ELSE IF catalog[k].id = item.id
    THEN Calculate(checks, catalog, item, k + 1, all_items_calculated)
    ELSE Push(checks, catalog, item, k, all_items_calculated,
              CosineOf(checks, item, catalog[k]))

\* The comparator of the sort: b.similarity.partial_cmp(&a.similarity)
\* .unwrap_or(Equal)
compare(a, b) ==
    LET c == partial_cmp(b.similarity, a.similarity)
    IN  IF c = "None" THEN "Equal" ELSE c

\* (a faulty variant of InsertTail: x also moves before the elements it ties with)
RECURSIVE InsertBeforeTies(_, _, _)
InsertBeforeTies(v, x, k) ==
    IF k >= 1 /\ compare(x, v[k]) # "Greater"
    THEN InsertBeforeTies(v, x, k - 1)
    ELSE SubSeq(v, 1, k) \o <<x>> \o SubSeq(v, k + 1, Len(v))

\* v with x put before the first of its last elements that x is not less
\* than, looking from the end of v
RECURSIVE InsertTail(_, _, _)
InsertTail(v, x, k) ==
    IF k >= 1 /\ compare(x, v[k]) = "Less"
    THEN InsertTail(v, x, k - 1)
    ELSE SubSeq(v, 1, k) \o <<x>> \o SubSeq(v, k + 1, Len(v))

\* slice::sort_by: the stable sort.  For a slice of at most 20 elements
\* the standard library runs an insertion sort, element by element from the
\* left, which is what this is.
RECURSIVE SortFrom(_, _, _)
SortFrom(v, k, sorted) ==
    IF k > Len(v) THEN sorted
    ELSE SortFrom(v, k + 1, InsertTail(sorted, v[k], Len(sorted)))

sort_by(v) == SortFrom(v, 1, <<>>)

K == 5

\* (a faulty variant of take: nothing is cut)
take_all(v, n) == v

take(v, n) == SubSeq(v, 1, IF Len(v) < n THEN Len(v) ELSE n)

\* the sort and the cut, of what the loop ended with
TopOf(calculated) ==
    IF calculated.panic # "" THEN calculated
    ELSE Returned(take(sort_by(calculated.ret), K))

get_similar(checks, catalog, item_id) ==
    LET found == FindFrom(catalog, item_id, 1) IN
    IF found = 0 THEN Panicked(NotFoundMsg)
    ELSE TopOf(Calculate(checks, catalog, catalog[found], 1, <<>>))

(***************************************************************************)
(* The engine.  It starts empty (init_test_similarity_engine, before its   *)
(* create_item calls); create_item appends whatever it is given, without   *)
(* looking at the ids or the lengths; get_similar is called with any id.   *)
(***************************************************************************)
MaxItems == 7

MaxOdd == 1

Ids == 1..(MaxItems + 1)

NumOdd(catalog) == Cardinality({k \in 1..Len(catalog) : catalog[k].rating \in OddRatings})

Init ==
    /\ overflow_checks \in BOOLEAN
    /\ items = <<>>
    /\ call = NoCall

create_item(item) ==
    /\ Len(items) < MaxItems
    /\ items' = Append(items, item)
    /\ call' = CallOf("create_item", <<item.id>>, Returned(Nothing))
    /\ UNCHANGED overflow_checks

CallGetSimilar(item_id) ==
    /\ call' = CallOf("get_similar", <<item_id>>,
                      Vec(get_similar(overflow_checks, items, item_id)))
    /\ UNCHANGED <<overflow_checks, items>>

\* The catalogs built: ids in the order of insertion, as the demo catalog's
\* are; at most MaxOdd items with a rating of OddRatings.
NewItems ==
    {it \in [id : {Len(items) + 1}, rating : Ratings] :
        NumOdd(Append(items, it)) <= MaxOdd}

Next ==
    \/ \E item \in NewItems : create_item(item)
    \/ \E item_id \in Ids : CallGetSimilar(item_id)

Spec == Init /\ [][Next]_vars

(***************************************************************************)
(* The vector arithmetic on its own: two items with ratings of             *)
(* MathRatings, and the three public functions called on them.             *)
(***************************************************************************)
MathInit ==
    /\ overflow_checks \in BOOLEAN
    /\ \E r1 \in MathRatings, r2 \in MathRatings :
          items = <<[id |-> 1, rating |-> r1], [id |-> 2, rating |-> r2]>>
    /\ call = NoCall

CallDotProduct(i, j) ==
    /\ call' = CallOf("dot_product", <<i, j>>,
                      I32(dot_product(overflow_checks, items[i], items[j])))
    /\ UNCHANGED <<overflow_checks, items>>

CallMagnitude(i) ==
    /\ call' = CallOf("magnitude", <<i>>, F64(MagnitudeOf(overflow_checks, items[i])))
    /\ UNCHANGED <<overflow_checks, items>>

CallCosineSimilarity(i, j) ==
    /\ call' = CallOf("cosine_similarity", <<i, j>>,
                      F64(CosineOf(overflow_checks, items[i], items[j])))
    /\ UNCHANGED <<overflow_checks, items>>

MathNext ==
    \/ \E i \in 1..Len(items), j \in 1..Len(items) : CallDotProduct(i, j)
    \/ \E i \in 1..Len(items) : CallMagnitude(i)
    \/ \E i \in 1..Len(items), j \in 1..Len(items) : CallCosineSimilarity(i, j)

SpecMath == MathInit /\ [][MathNext]_vars

(***************************************************************************)
(* What the properties below read off a state.  After a get_similar call   *)
(* the catalog is the one the call ran on (create_item replaces call).     *)
(***************************************************************************)
IsGetSimilar == call.op = "get_similar"

QueryId == call.args[1]

QueryFound == \E k \in 1..Len(items) : items[k].id = QueryId

\* the query item: the first one with the id
QueryItem == items[CHOOSE k \in 1..Len(items) :
                      /\ items[k].id = QueryId
                      /\ \A j \in 1..(k - 1) : items[j].id # QueryId]

\* the places of the catalog items other than the query item
Candidates == {k \in 1..Len(items) : items[k].id # QueryId}

ReturnedList == IsGetSimilar /\ call.panic = ""

\* the list returned
List == call.ret.vec

\* the places of the catalog items the returned list holds
Ranked == {List[n].against : n \in 1..Len(List)}

\* the similarity cosine_similarity gives the query item and the item at k
\* (when it returns one)
Score(k) == CosineOf(overflow_checks, QueryItem, items[k]).ret

AllZero(rating) == \A n \in 1..Len(rating) : rating[n] = 0

Min(x, y) == IF x <= y THEN x ELSE y

(***************************************************************************)
(* C1.  The list get_similar returns never holds the query item: no record *)
(* has the query id, and none refers to an item with it.                   *)
(***************************************************************************)
C1_NeverSelf ==
    ReturnedList =>
        \A n \in 1..Len(List) :
            /\ List[n].id # QueryId
            /\ items[List[n].against].id # QueryId

\* a query for the second of at least three items returned a list
C1_Witness ==
    ReturnedList /\ QueryId = 2 /\ Len(items) >= 3 /\ Len(List) >= 2

(***************************************************************************)
(* C2.  The returned list has min(5, number of items other than the query  *)
(* item) records, each a different item (nothing is padded); and a query   *)
(* for an id of a catalog whose ratings all have two entries and no        *)
(* overflowing square does return a list, however few the items.           *)
(***************************************************************************)
C2_Length ==
    /\ ReturnedList =>
          /\ Len(List) = Min(K, Cardinality(Candidates))
          /\ Ranked \subseteq Candidates
          /\ Cardinality(Ranked) = Len(List)
    /\ ( /\ IsGetSimilar
         /\ QueryFound
         /\ \A k \in 1..Len(items) : items[k].rating \in PlainRatings \cup {<<0, 0>>} )
       => call.panic = ""

\* six candidates, five returned
C2_Witness ==
    ReturnedList /\ Cardinality(Candidates) = K + 1 /\ Len(List) = K

(***************************************************************************)
(* C3.  The returned list is in descending order of similarity: of any two *)
(* adjacent records the first's similarity is >= the second's.             *)
(***************************************************************************)
C3_Descending ==
    ReturnedList =>
        \A n \in 1..(Len(List) - 1) :
            F64Ge(List[n].similarity, List[n + 1].similarity)

(***************************************************************************)
(* C4.  The returned list is the top of the ranking: every item other than *)
(* the query item that is not in the list has a similarity to the query    *)
(* item <= that of every record of the list.                               *)
(***************************************************************************)
C4_TopK ==
    ReturnedList =>
        \A k \in Candidates \ Ranked :
            \A n \in 1..Len(List) : F64Ge(List[n].similarity, Score(k))

(***************************************************************************)
(* C5 as stated: get_similar with an id no item has fails with an error    *)
(* that carries the id, and returns no list.                               *)
(***************************************************************************)
C5_NotFoundCarriesId ==
    (IsGetSimilar /\ ~QueryFound) =>
        /\ call.panic = NotFoundMsg
        /\ call.ret = Nothing
        /\ \E n \in 1..Len(call.values) : call.values[n] = QueryId

(***************************************************************************)
(* C5 amended: get_similar with an id no item has panics with the message  *)
(* "Couldn't find item", which carries no value (so not the id), and       *)
(* returns no list.                                                        *)
(***************************************************************************)
C5_NotFoundPanics ==
    (IsGetSimilar /\ ~QueryFound) =>
        /\ call.panic = NotFoundMsg
        /\ call.values = <<>>
        /\ call.ret = Nothing

\* a query for an id missing from a catalog of three items panicked
C5_Witness ==
    IsGetSimilar /\ ~QueryFound /\ Len(items) = 3 /\ call.panic = NotFoundMsg

(***************************************************************************)
(* C6.  For any two items of the catalog whose ratings differ in length,   *)
(* dot_product and cosine_similarity panic with the length message and     *)
(* return no value; and a get_similar call whose query item differs in     *)
(* rating length from some other item panics and returns no list.          *)
(***************************************************************************)
C6_LengthMismatch ==
    /\ \A i, j \in 1..Len(items) :
          Len(items[i].rating) # Len(items[j].rating) =>
            /\ dot_product(overflow_checks, items[i], items[j])
                  = Panicked(LengthMismatchMsg)
            /\ CosineOf(overflow_checks, items[i], items[j])
                  = Panicked(LengthMismatchMsg)
    /\ ( /\ IsGetSimilar
         /\ QueryFound
         /\ \E k \in Candidates : Len(items[k].rating) # Len(QueryItem.rating) )
       => (call.panic # "" /\ call.ret = Nothing)

\* the query item was compared with two items before the one of another
\* length, and the call panicked with the length message
C6_Witness ==
    /\ IsGetSimilar
    /\ QueryId = 1
    /\ Len(items) >= 5
    /\ Len(items[4].rating) # Len(items[1].rating)
    /\ call.panic = LengthMismatchMsg
    /\ call.ret = Nothing

(***************************************************************************)
(* C7.  cosine_similarity of an item whose rating is all zero and another  *)
(* item (of the same rating length) returns exactly 0.0: not NaN, and it   *)
(* does not panic.                                                         *)
(***************************************************************************)
C7_ZeroVector ==
    ( /\ call.op = "cosine_similarity"
      /\ Len(items[call.args[1]].rating) = Len(items[call.args[2]].rating)
      /\ \/ AllZero(items[call.args[1]].rating)
         \/ AllZero(items[call.args[2]].rating) )
    => (call.panic = "" /\ call.ret = [f64 |-> F64Zero])

(***************************************************************************)
(* C8.  magnitude returns a value >= 0, which is 0 exactly when every      *)
(* rating of the item is 0.                                                *)
(***************************************************************************)
C8_Magnitude ==
    call.op = "magnitude" =>
        /\ call.panic = ""
        /\ F64Ge(call.ret.f64, F64Zero)
        /\ (call.ret = [f64 |-> F64Zero]) <=> AllZero(items[call.args[1]].rating)

(***************************************************************************)
(* C9.  cosine_similarity of an item with itself is exactly 1.0 whenever   *)
(* the item's magnitude is not 0.                                          *)
(***************************************************************************)
C9_SelfSimilarity ==
    ( /\ call.op = "cosine_similarity"
      /\ call.args[1] = call.args[2]
      /\ MagnitudeOf(overflow_checks, items[call.args[1]]).panic = ""
      /\ MagnitudeOf(overflow_checks, items[call.args[1]]).ret.cls # "zero" )
    => (call.panic = "" /\ call.ret = [f64 |-> F64One])

(***************************************************************************)
(* C10.  Ties keep the catalog's order: of two records of the returned     *)
(* list with equal similarities, the one whose item was inserted earlier   *)
(* comes first; and an item left out of the list that ties with a record   *)
(* of the list was inserted after that record's item.                      *)
(***************************************************************************)
C10_TiesStable ==
    ReturnedList =>
        /\ \A m, n \in 1..Len(List) :
              ( /\ m < n
                /\ partial_cmp(List[m].similarity, List[n].similarity) = "Equal" )
              => List[m].against < List[n].against
        /\ \A k \in Candidates \ Ranked :
              \A n \in 1..Len(List) :
                  partial_cmp(Score(k), List[n].similarity) = "Equal"
                  => List[n].against < k

\* an item left out of the list ties with the last record of the list,
\* which ties with the record before it
C10_Witness ==
    /\ ReturnedList
    /\ Len(List) = K
    /\ partial_cmp(List[K - 1].similarity, List[K].similarity) = "Equal"
    /\ \E k \in Candidates \ Ranked :
          partial_cmp(Score(k), List[K].similarity) = "Equal"
====
